---- MODULE Spec2Model ----
(***************************************************************************)
(* Model of the staged content-generation pipeline of OpenManus:           *)
(* VideoScriptWorkflow.generate_script (src/app/video_script/workflow.py)  *)
(* with its chapter loop, retry policy, snapshot writer and completion     *)
(* marker.                                                                 *)
(*                                                                         *)
(* Texts are abstracted to what the code reads of them: their length       *)
(* (len()), whether they contain one of the placeholder substrings the     *)
(* code searches for, and which parts (title, chapter sections, summary)   *)
(* they are made of, in order.  A content value is a record                *)
(*   [parts |-> sequence of parts, len |-> length, ph |-> has placeholder] *)
(* and a part is [k |-> kind, i |-> chapter number].  Within one run a     *)
(* part (k, i) of kind "gen" denotes the one accepted generator text of    *)
(* chapter i, with the code references inserted into it.                   *)
(***************************************************************************)
EXTENDS Integers, Sequences, FiniteSets, TLC

\* ---------------------------------------------------------------- bounds
\* Largest number of chapters the structure parser returns.
MaxParsed == 3
\* Largest number of file operations that fail in one run.
MaxIOFaults == 2
\* Largest number of Manim code blocks generated in one run.
MaxCodeBlocks == 1
\* Largest number of visualization sections identified in one chapter.
MaxViz == 1
\* Length of every generated name (title, chapter title, description, keyword).
NameLen == 4
\* Number of steps of the article plan.
PlanSteps == 6
\* Largest number of think calls in one run of the article writer.
MaxPolls == 8
\* Largest number of planning-tool calls that fail in one run.
MaxToolFaults == 2
\* Number of different texts the inherited act returns.
MaxResults == 2
\* Largest number of section titles in a plan the language model returns.
MaxPlan == 3
\* Longest text before the chapter, longest chapter text, and most
\* visualization sections of one chapter, in the script text of SpecInsert.
MaxPrevLen == 2
MaxSecLen == 3
MaxAnchors == 2
\* Chunk ids ever generated, operations started and operations in flight on
\* one document; the positions a caller passes.
MaxChunkIds == 3
MaxOps == 3
NumProcs == 2
MaxPosition == 1
\* Items a stream's source produces.
MaxItems == 3

\* ------------------------------------------------------ program constants
max_retries == 2
MinChapterLen == 50
MinTotalLen == 500
PlaceholderCtxLen == 200
MinChapters == 3
DefaultChapters == 5
ExceptChapters == 6
RunErrPrefixLen == 8
FallbackMarkLen == 18
SectionHeadLen == 10
SummaryHeadLen == 9
SummaryFallbackLen == 35
WaitChapterLen == 22
WaitInitLen == 32
WaitStructLen == 22
TitleHeadLen == 4
CtxHeadLen == 11
CodeRefLen == 29
SkelMetaLen == 34
SkelTitlesHeadLen == 9
SkelTitleLineLen == 4
SkelChapterLen == 23
SkelSummaryLen == 44
SkelNoteLen == 35
StructHeadLen == 8
StructLineLen == 9
DefaultTitles == 5
StallLimit == 3
FallbackPlanLen == 4

\* ---------------------------------------------------------------- texts
None == [len |-> 0, ph |-> FALSE, nil |-> TRUE]
Text(l, p) == [len |-> l, ph |-> p, nil |-> FALSE]

\* Lengths of the texts the language model returns, and of the messages of
\* the exceptions it raises.
GenLens == {0, 49, 50, 450}
ErrLens == {12, 42}
\* What the underlying agent run does: raise, return None, or return a text.
GenOutcomes ==
    {[raise |-> TRUE, t |-> Text(l, FALSE)] : l \in ErrLens}
    \cup {[raise |-> FALSE, t |-> None]}
    \cup {[raise |-> FALSE, t |-> Text(l, FALSE)] : l \in GenLens}
\* The summary request may also return a text that contains one of the
\* placeholder substrings ("请稍候", "生成中...").
SummaryOutcomes ==
    {[raise |-> FALSE, t |-> None]}
    \cup {[raise |-> FALSE, t |-> Text(l, p)] : l \in {50, 450}, p \in BOOLEAN}

\* ScriptWriterAgent.run: an exception of the underlying run becomes the
\* returned string "脚本生成失败: <message>".
Run(o) == IF o.raise THEN Text(RunErrPrefixLen + o.t.len, FALSE) ELSE o.t

\* ------------------------------------------------------------- contents
Part(k, i) == [k |-> k, i |-> i]
\* Lengths are kept exactly up to 500, the largest length the code compares a
\* content with (lines 96, 114 and 184); every longer content counts as 500.
Sat(l) == IF l > MinTotalLen THEN MinTotalLen ELSE l
Content(ps, l, p) == [parts |-> ps, len |-> Sat(l), ph |-> p]
Empty == Content(<<>>, 0, FALSE)
Append1(cnt, part, l, p) ==
    Content(Append(cnt.parts, part), cnt.len + l, cnt.ph \/ p)

IsSection(part) == part.k \in {"gen", "fallback", "skel"}

\* ---------------------------------------------------------------- files
Absent == [st |-> "absent", body |-> Empty]
Truncated == [st |-> "partial", body |-> Empty]
Whole(cnt) == [st |-> "whole", body |-> cnt]

\* ------------------------------------------------------ article writer
\* current_step_index is None.
NoIndex == -1
\* The attribute has not been set (hasattr is false).
Unset == -2
\* act has not run yet.
NoResult == 0
\* The texts the inherited act returns.
Results == 1..MaxResults

\* ------------------------------------------------------ chunk manager
\* The operations that can be in flight on the document at a time.
Procs == 1..NumProcs

\* ------------------------------------------------------ VideoScriptAgent
\* self.plan is None.
NoPlan == -1
\* script_file_path is None; the file does not exist; the file's lines.
FileUnset == [st |-> "unset", lines |-> <<>>]
FileAbsent == [st |-> "absent", lines |-> <<>>]
FileWith(ls) == [st |-> "file", lines |-> ls]

VARIABLES
    pc,               \* position in generate_script
    suggested,        \* suggested_titles is non-empty
    chapters,         \* len(self.chapters)
    i,                \* chapter number of the loop (1-based)
    retry_count,
    chapter_content,
    failures,
    max_failures,
    broke,            \* the loop was left by break
    current_content,
    manim_code_blocks,
    vizLeft,          \* visualization sections still to process
    final_output,     \* the "script" of the returned dictionary
    outFile, tmpFile, marker,
    snapPc, snapArg,  \* position in and argument of _update_markdown_file
    ioFaults,         \* file operations that failed so far
    calls,            \* generator invocations for the current chapter
    produced,         \* chapters stored with generated text
    everOut,          \* a snapshot has been completed
    snapshots,        \* calls of _update_markdown_file so far
    lastGen,          \* what _write_chapter returned last for the chapter
    lost,             \* a snapshot was written by neither path
    \* ArticleWriterAgent (src/app/rss_writer/agents/article_writer.py)
    apc,              \* position in the agent's think/act cycle
    step_status,      \* the plan: which steps are completed
    current_step_index,
    last_step_index,  \* _last_step_index
    same_step_count,  \* _same_step_count
    writing_stage,
    article_sections, \* keys of the article_sections dictionary
    section_text,     \* the article_sections dictionary
    result,           \* what the inherited act returned last
    polls,            \* calls of think so far
    toolFaults,       \* planning-tool calls that failed so far
    observed,         \* the step indices think has read at line 457
    forcedAt,         \* the polls at which think forced the plan forward
    \* VideoScriptAgent (src/modules/video_script_generator/agent.py)
    gpc,              \* position in VideoScriptAgent.run
    plan,             \* len(self.plan), NoPlan when the plan is None
    section_no,       \* sections of the plan processed so far
    script_content,   \* sections stored in self.script_content
    script_file,      \* what the script file holds, in order
    returned,         \* what run has returned
    \* The script text of lines 543-559 of workflow.py, character by character
    doc,              \* self.current_content
    doc0,             \* current_content when the chapter had been stored
    secStart,         \* offset of the chapter's text in current_content
    todo,             \* visualization sections still to process
    done,             \* the sections processed, with their insertion points
    \* ChunkManagerTool (src/modules/doc_server/tools/chunk_manager/tool.py)
    store,            \* the chunks of the document: id -> position
    nextId,           \* the next chunk id to be generated
    opc,              \* position of each operation in flight
    olist,            \* all_chunks of _adjust_positions, per operation
    oidx,             \* index of the loop of _adjust_positions
    lastDone,         \* how the operation that returned last ended
    started,          \* operations started so far
    \* StreamProcessor (src/modules/doc_server/utils/stream_utils.py)
    spc,              \* position in process_stream / process_llm_stream
    skind,            \* plain stream or document stream
    events,           \* the events emitted so far
    schunks,          \* self.chunks: the contents stored
    sitems            \* items the source has produced

videoVars == <<pc, suggested, chapters, i, retry_count, chapter_content, failures,
          max_failures, broke, current_content, manim_code_blocks, vizLeft,
          final_output, outFile, tmpFile, marker, snapPc, snapArg, ioFaults,
          calls, produced, everOut, snapshots, lastGen, lost>>

articleVars == <<apc, step_status, current_step_index, last_step_index,
                 same_step_count, writing_stage, article_sections, polls,
                 toolFaults, observed, forcedAt, section_text, result>>

ctlVars == <<pc, suggested, chapters, i, retry_count, chapter_content,
             failures, max_failures, broke, current_content,
             manim_code_blocks, vizLeft, final_output, marker, calls, produced,
             snapshots, lastGen>>

agentVars == <<gpc, plan, section_no, script_content, script_file, returned>>

insertVars == <<doc, doc0, secStart, todo, done>>

chunkVars == <<store, nextId, opc, olist, oidx, lastDone, started>>

streamVars == <<spc, skind, events, schunks, sitems>>

vars == <<videoVars, articleVars, agentVars, insertVars, chunkVars,
          streamVars>>

\* The state after construction, but for the script text of the insertion
\* steps.
InitRun ==
    /\ pc = "setup"
    /\ suggested = FALSE
    /\ chapters = 0
    /\ i = 0
    /\ retry_count = 0
    /\ chapter_content = None
    /\ failures = 0
    /\ max_failures = 0
    /\ broke = FALSE
    /\ current_content = Empty
    /\ manim_code_blocks = 0
    /\ vizLeft = 0
    /\ final_output = Empty
    /\ outFile = Absent
    /\ tmpFile = Absent
    /\ marker = "none"
    /\ snapPc = "idle"
    /\ snapArg = Empty
    /\ ioFaults = 0
    /\ calls = 0
    /\ produced = {}
    /\ everOut = FALSE
    /\ snapshots = 0
    /\ lastGen = None
    /\ lost = FALSE
    /\ apc = "think"
    /\ step_status = [j \in 0..(PlanSteps - 1) |-> FALSE]
    /\ current_step_index = NoIndex
    /\ last_step_index = Unset
    /\ same_step_count = Unset
    /\ writing_stage = "planning"
    /\ article_sections = {}
    /\ section_text = <<>>
    /\ result = NoResult
    /\ polls = 0
    /\ toolFaults = 0
    /\ observed = <<>>
    /\ forcedAt = <<>>
    /\ gpc = "start"
    /\ plan = NoPlan
    /\ section_no = 0
    /\ script_content = {}
    /\ script_file = FileUnset
    /\ returned = "none"
    /\ store = <<>>
    /\ nextId = 1
    /\ opc = [p \in Procs |-> "idle"]
    /\ olist = [p \in Procs |-> <<>>]
    /\ oidx = [p \in Procs |-> 0]
    /\ lastDone = "none"
    /\ started = 0
    /\ spc = "closed"
    /\ skind = "none"
    /\ events = <<>>
    /\ schunks = <<>>
    /\ sitems = 0

Init ==
    /\ InitRun
    /\ doc = <<>>
    /\ doc0 = <<>>
    /\ secStart = 0
    /\ todo = <<>>
    /\ done = <<>>

\* ------------------------------------------------------- pure operators
\* An acceptance test that wants more than the minimum length.
AcceptedAbove(r) == ~r.nil /\ r.len > MinChapterLen

\* Lines 507-512: a result is rejected when it is None, empty or shorter
\* than 50 characters.
Accepted(r) == ~r.nil /\ r.len >= MinChapterLen

\* _write_chapter: returns what ScriptWriterAgent.run returns (run never
\* raises, so the except branch of line 619 is not taken).
WriteChapter(o) == Run(o)

\* A retry loop that leaves one attempt out.
RetryAgainOneLess(rc, cc) == rc < max_retries /\ (cc.nil \/ cc.len = 0)

\* A retry loop whose bound is one too large.
RetryAgainOneMore(rc, cc) == rc <= max_retries + 1 /\ (cc.nil \/ cc.len = 0)

\* The retry loop's condition, line 507.
Falsy(t) == t.nil \/ t.len = 0
RetryAgain(rc, cc) == rc <= max_retries /\ Falsy(cc)

\* A fallback that leaves the chapter text empty.
FallbackTextEmpty == Text(0, FALSE)

\* Line 523: description, blank line, failed-generation sentence.
FallbackText == Text(NameLen + FallbackMarkLen, FALSE)

\* A counter that counts every chapter.
CountFailureAlways(f, fb) == f + 1

\* A counter that starts again after every generated chapter.
CountFailureInARow(f, fb) == IF fb THEN f + 1 ELSE 0

\* Lines 521-524: every chapter that got the fallback text is counted.
CountFailure(f, fb) == IF fb THEN f + 1 ELSE f

\* A threshold test that stops one failure late.
TooManyFailuresLate(f, m) == f > m

\* Lines 533 and 574.
TooManyFailures(f, m) == f >= m

\* A threshold rounded up.
MaxFailuresCeil(n) == (n + 1) \div 2

\* Line 492.
MaxFailures(n) == n \div 2

\* A check of the chapter list that replaces only an empty list.
EnsureChaptersNonEmpty(n) == IF n = 0 THEN DefaultChapters ELSE n

\* Lines 476-484.
EnsureChapters(n) == IF n < MinChapters THEN DefaultChapters ELSE n

TitleContent == Content(<<Part("title", 0)>>, TitleHeadLen + NameLen, FALSE)

\* A store that appends the heading without the chapter text.
SectionStoredHeadOnly(cnt, n, t, k) ==
    Append1(cnt, Part(k, n), SectionHeadLen + NameLen, FALSE)

\* A store that appends the section of a chapter twice.
SectionStoredTwice(cnt, n, t, k) ==
    Append1(Append1(cnt, Part(k, n), SectionHeadLen + NameLen + t.len, t.ph),
            Part(k, n), SectionHeadLen + NameLen + t.len, t.ph)

\* Line 527: "\n\n## {i}. {title}\n\n{chapter_content}" is appended.
SectionStored(cnt, n, t, k) ==
    Append1(cnt, Part(k, n), SectionHeadLen + NameLen + t.len, t.ph)

\* Line 501: the content followed by the in-progress paragraph.
WithWait(cnt, l) == Append1(cnt, Part("wait", 0), l, TRUE)

\* Lines 553-556: the code reference is inserted behind the anchor text,
\* which lies in the section of chapter n.
InsertCode(cnt, n) ==
    Content(cnt.parts, cnt.len + CodeRefLen + 2 * NameLen, cnt.ph)

\* Lines 579-585.
SummaryText(r) ==
    IF r.nil THEN Text(SummaryFallbackLen + NameLen, FALSE) ELSE r
\* A summary step that appends nothing when the generator gave no text.
WithSummaryIfAny(cnt, r) ==
    IF r.nil THEN cnt
    ELSE Append1(cnt, Part("summary", 0), SummaryHeadLen + r.len, r.ph)

WithSummary(cnt, r) ==
    Append1(cnt, Part("summary", 0), SummaryHeadLen + SummaryText(r).len,
            SummaryText(r).ph)

\* _ensure_minimum_content, lines 892-940: title, metadata, the suggested
\* titles, one skeleton section per chapter, summary and a note.  With
\* chapters the skeleton sections end in "本章节内容生成中...", without
\* chapters the five default sections end in "本章节内容待完善...".
SkelParts(n) == [j \in 1..n |-> Part("skel", j)]
EnsureMinimumContent(n, sug) ==
    LET m == IF n > 0 THEN n ELSE DefaultChapters
    IN Content(<<Part("title", 0), Part("meta", 0)>> \o SkelParts(m)
                    \o <<Part("summary", 0), Part("note", 0)>>,
               TitleHeadLen + NameLen + SkelMetaLen + 2 * NameLen
                 + (IF sug THEN SkelTitlesHeadLen
                                  + DefaultTitles * (SkelTitleLineLen + NameLen)
                                  + 1
                           ELSE 0)
                 + m * (SkelChapterLen + 2 * NameLen)
                 + SkelSummaryLen + NameLen + SkelNoteLen,
               n > 0)

\* Lines 96-98.
CheckedContent(cnt, n, sug) ==
    IF cnt.len < MinTotalLen THEN EnsureMinimumContent(n, sug) ELSE cnt

\* _update_markdown_file, lines 183-191: short placeholder content gets
\* the title and a heading put in front.
UpdateArg(cnt) ==
    IF cnt.ph /\ cnt.len < PlaceholderCtxLen
    THEN Content(<<Part("ctx", 0)>> \o cnt.parts,
                 cnt.len + CtxHeadLen + 2 * NameLen, cnt.ph)
    ELSE cnt

\* _mark_generation_completed, lines 958-960.
HasPlaceholder(f) == f.body.ph

\* Status written by _mark_generation_completed, line 946.
MarkerStatus(error) == IF error THEN "error" ELSE "completed"

\* A call of _update_markdown_file(content).
Snap(cnt) ==
    /\ snapPc' = "tmp"
    /\ snapArg' = UpdateArg(cnt)
    /\ snapshots' = snapshots + 1
NoSnap == UNCHANGED <<snapPc, snapArg, snapshots>>
CanFault == ioFaults < MaxIOFaults

\* ------------------------------------------------- _update_markdown_file
\* Lines 206-208: the rendering is written to the temporary file.
SnapWriteTmp ==
    /\ snapPc = "tmp"
    /\ tmpFile' = Whole(snapArg)
    /\ snapPc' = "remove"
    /\ UNCHANGED <<ctlVars, outFile, snapArg, ioFaults, everOut>>
    /\ UNCHANGED lost
    /\ UNCHANGED articleVars
    /\ UNCHANGED <<agentVars, insertVars>>
    /\ UNCHANGED <<chunkVars, streamVars>>

\* Lines 218-220: an existing output file is removed.
SnapRemove ==
    /\ snapPc = "remove"
    /\ outFile' = Absent
    /\ snapPc' = "rename"
    /\ UNCHANGED <<ctlVars, tmpFile, snapArg, ioFaults, everOut>>
    /\ UNCHANGED lost
    /\ UNCHANGED articleVars
    /\ UNCHANGED <<agentVars, insertVars>>
    /\ UNCHANGED <<chunkVars, streamVars>>

\* Line 222: the temporary file is renamed to the output file.
SnapRename ==
    /\ snapPc = "rename"
    /\ outFile' = tmpFile
    /\ tmpFile' = Absent
    /\ everOut' = TRUE
    /\ snapPc' = "idle"
    /\ UNCHANGED <<ctlVars, snapArg, ioFaults>>
    /\ UNCHANGED lost
    /\ UNCHANGED articleVars
    /\ UNCHANGED <<agentVars, insertVars>>
    /\ UNCHANGED <<chunkVars, streamVars>>

\* A failing temporary-file path that gives the snapshot up.
SnapFaultAbort ==
    /\ snapPc \in {"tmp", "remove", "rename"}
    /\ CanFault
    /\ ioFaults' = ioFaults + 1
    /\ snapPc' = "idle"
    /\ UNCHANGED <<ctlVars, outFile, tmpFile, snapArg, everOut>>
    /\ UNCHANGED lost
    /\ UNCHANGED articleVars
    /\ UNCHANGED <<agentVars, insertVars>>
    /\ UNCHANGED <<chunkVars, streamVars>>

\* Lines 230-235: a file operation of the temporary-file path raises.
SnapFault ==
    /\ snapPc \in {"tmp", "remove", "rename"}
    /\ CanFault
    /\ ioFaults' = ioFaults + 1
    /\ snapPc' = "direct"
    /\ UNCHANGED <<ctlVars, outFile, tmpFile, snapArg, everOut>>
    /\ UNCHANGED lost
    /\ UNCHANGED articleVars
    /\ UNCHANGED <<agentVars, insertVars>>
    /\ UNCHANGED <<chunkVars, streamVars>>

\* Line 239: the output file is opened for writing, which truncates it.
SnapDirectOpen ==
    /\ snapPc = "direct"
    /\ outFile' = Truncated
    /\ snapPc' = "directWrite"
    /\ UNCHANGED <<ctlVars, tmpFile, snapArg, ioFaults, everOut>>
    /\ UNCHANGED lost
    /\ UNCHANGED articleVars
    /\ UNCHANGED <<agentVars, insertVars>>
    /\ UNCHANGED <<chunkVars, streamVars>>

\* Line 240: the rendering is written to the output file.
SnapDirectWrite ==
    /\ snapPc = "directWrite"
    /\ outFile' = Whole(snapArg)
    /\ everOut' = TRUE
    /\ snapPc' = "idle"
    /\ UNCHANGED <<ctlVars, tmpFile, snapArg, ioFaults>>
    /\ UNCHANGED lost
    /\ UNCHANGED articleVars
    /\ UNCHANGED <<agentVars, insertVars>>
    /\ UNCHANGED <<chunkVars, streamVars>>

\* Lines 243-244: the direct write raises too; the error is logged.
SnapDirectFault ==
    /\ snapPc \in {"direct", "directWrite"}
    /\ CanFault
    /\ ioFaults' = ioFaults + 1
    /\ snapPc' = "idle"
    /\ UNCHANGED <<ctlVars, outFile, tmpFile, snapArg, everOut>>
    /\ lost' = TRUE
    /\ UNCHANGED articleVars
    /\ UNCHANGED <<agentVars, insertVars>>
    /\ UNCHANGED <<chunkVars, streamVars>>

\* ------------------------------------------------------- generate_script
\* _setup_output_files, lines 130-174, called at line 67 before the try
\* block of line 72.  The paths of a new output file are set.  When the
\* directory cannot be prepared the handler of line 161 creates the default
\* directory; an error of that mkdir (line 165) leaves generate_script as
\* an exception.
SetupOutputFiles ==
    /\ pc = "setup"
    /\ \E o \in {"ok", "fallback", "raise"} :
         pc' = IF o = "raise" THEN "raised" ELSE "titles"
    /\ UNCHANGED <<suggested, chapters, i, retry_count, chapter_content,
                   failures, max_failures, broke, current_content,
                   manim_code_blocks, vizLeft, final_output, outFile, tmpFile,
                   marker, snapPc, snapArg, ioFaults, calls, produced,
                   everOut, snapshots, lastGen>>
    /\ UNCHANGED lost
    /\ UNCHANGED articleVars
    /\ UNCHANGED <<agentVars, insertVars>>
    /\ UNCHANGED <<chunkVars, streamVars>>

\* _generate_titles, lines 309-371.  A None result raises inside the try
\* block: only the default title is selected.
GenerateTitles ==
    /\ pc = "titles" /\ snapPc = "idle"
    /\ \E o \in GenOutcomes :
         IF Run(o).nil
         THEN suggested' = FALSE /\ NoSnap
         ELSE /\ suggested' = TRUE
              /\ Snap(WithWait(Empty, WaitStructLen))
    /\ pc' = "initSnap"
    /\ UNCHANGED <<chapters, i, retry_count, chapter_content, failures,
                   max_failures, broke, current_content, manim_code_blocks,
                   vizLeft, final_output, outFile, tmpFile, marker, ioFaults,
                   calls, produced, everOut>>
    /\ UNCHANGED lastGen
    /\ UNCHANGED lost
    /\ UNCHANGED articleVars
    /\ UNCHANGED <<agentVars, insertVars>>
    /\ UNCHANGED <<chunkVars, streamVars>>

\* Lines 78-81.
InitialSnapshot ==
    /\ pc = "initSnap" /\ snapPc = "idle"
    /\ Snap(WithWait(TitleContent, WaitInitLen))
    /\ pc' = "structure"
    /\ UNCHANGED <<suggested, chapters, i, retry_count, chapter_content,
                   failures, max_failures, broke, current_content,
                   manim_code_blocks, vizLeft, final_output, outFile, tmpFile,
                   marker, ioFaults, calls, produced, everOut>>
    /\ UNCHANGED lastGen
    /\ UNCHANGED lost
    /\ UNCHANGED articleVars
    /\ UNCHANGED <<agentVars, insertVars>>
    /\ UNCHANGED <<chunkVars, streamVars>>

\* The snapshot of lines 406-412: the chapter list and an in-progress
\* paragraph.
StructureContent(k) ==
    WithWait(Content(<<Part("struct", 0)>>,
                     StructHeadLen + k * (StructLineLen + 2 * NameLen), FALSE),
             WaitStructLen)

\* _generate_chapter_structure, lines 373-424.  A None result raises inside
\* the try block: the six default chapters are set.
GenerateChapterStructure ==
    /\ pc = "structure" /\ snapPc = "idle"
    /\ \E o \in GenOutcomes, k \in 0..MaxParsed :
         IF Run(o).nil
         THEN chapters' = ExceptChapters /\ NoSnap
         ELSE chapters' = k /\ Snap(StructureContent(k))
    /\ pc' = "chapInit"
    /\ UNCHANGED <<suggested, i, retry_count, chapter_content, failures,
                   max_failures, broke, current_content, manim_code_blocks,
                   vizLeft, final_output, outFile, tmpFile, marker, ioFaults,
                   calls, produced, everOut>>
    /\ UNCHANGED lastGen
    /\ UNCHANGED lost
    /\ UNCHANGED articleVars
    /\ UNCHANGED <<agentVars, insertVars>>
    /\ UNCHANGED <<chunkVars, streamVars>>

\* _write_chapters_with_visualization, lines 475-496.
BeginChapters ==
    /\ pc = "chapInit" /\ snapPc = "idle"
    /\ chapters' = EnsureChapters(chapters)
    /\ current_content' =
         IF current_content.len = 0 THEN TitleContent ELSE current_content
    /\ max_failures' = MaxFailures(chapters')
    /\ failures' = 0
    /\ i' = 0
    /\ pc' = "chapNext"
    /\ UNCHANGED <<suggested, retry_count, chapter_content, broke,
                   manim_code_blocks, vizLeft, final_output, outFile, tmpFile,
                   marker, snapPc, snapArg, ioFaults, calls,
                   produced, everOut>>
    /\ UNCHANGED snapshots
    /\ UNCHANGED lastGen
    /\ UNCHANGED lost
    /\ UNCHANGED articleVars
    /\ UNCHANGED <<agentVars, insertVars>>
    /\ UNCHANGED <<chunkVars, streamVars>>

\* An attempt that appends an accepted text to the script itself.
AttemptApplying ==
    /\ pc = "chapGen" /\ snapPc = "idle"
    /\ RetryAgain(retry_count, chapter_content)
    /\ \E o \in GenOutcomes :
         LET r == WriteChapter(o)
         IN /\ lastGen' = r
            /\ IF Accepted(r)
               THEN /\ chapter_content' = r
                    /\ current_content' =
                         SectionStored(current_content, i, r, "gen")
                    /\ UNCHANGED retry_count
               ELSE /\ chapter_content' = None
                    /\ current_content' = current_content
                    /\ retry_count' = retry_count + 1
    /\ calls' = calls + 1
    /\ UNCHANGED <<pc, suggested, chapters, i, failures, max_failures, broke,
                   manim_code_blocks, vizLeft, final_output,
                   outFile, tmpFile, marker, snapPc, snapArg, ioFaults,
                   produced, everOut>>
    /\ UNCHANGED snapshots
    /\ UNCHANGED lost
    /\ UNCHANGED articleVars
    /\ UNCHANGED <<agentVars, insertVars>>
    /\ UNCHANGED <<chunkVars, streamVars>>

\* The except branch of lines 563-576 is not taken: every call in the try
\* body of the loop absorbs the exceptions of its own operations.
\* One pass of the retry loop, lines 507-518.
Attempt ==
    /\ pc = "chapGen" /\ snapPc = "idle"
    /\ RetryAgain(retry_count, chapter_content)
    /\ \E o \in GenOutcomes :
         LET r == WriteChapter(o)
         IN /\ lastGen' = r
            /\ IF Accepted(r)
               THEN chapter_content' = r /\ UNCHANGED retry_count
               ELSE chapter_content' = None /\ retry_count' = retry_count + 1
    /\ calls' = calls + 1
    /\ UNCHANGED <<pc, suggested, chapters, i, failures, max_failures, broke,
                   current_content, manim_code_blocks, vizLeft, final_output,
                   outFile, tmpFile, marker, snapPc, snapArg, ioFaults,
                   produced, everOut>>
    /\ UNCHANGED snapshots
    /\ UNCHANGED lost
    /\ UNCHANGED articleVars
    /\ UNCHANGED <<agentVars, insertVars>>
    /\ UNCHANGED <<chunkVars, streamVars>>

\* Lines 520-530: fallback text after the last attempt, the section is
\* appended and a snapshot is taken.  retry_count is not read again before
\* line 504 sets it to 0 for the next chapter, so it is 0 from here on.
StoreChapter ==
    /\ pc = "chapGen" /\ snapPc = "idle"
    /\ ~RetryAgain(retry_count, chapter_content)
    /\ LET fb == Falsy(chapter_content)
           t == IF fb THEN FallbackText ELSE chapter_content
       IN /\ chapter_content' = t
          /\ failures' = CountFailure(failures, fb)
          /\ current_content' =
               SectionStored(current_content, i, t,
                             IF fb THEN "fallback" ELSE "gen")
          /\ produced' = IF fb THEN produced ELSE produced \cup {i}
    /\ Snap(current_content')
    /\ pc' = "chapCheck"
    /\ retry_count' = 0
    /\ calls' = 0
    /\ lastGen' = None
    /\ UNCHANGED <<suggested, chapters, i, max_failures, broke,
                   manim_code_blocks, vizLeft, final_output, outFile, tmpFile,
                   marker, ioFaults, everOut>>
    /\ UNCHANGED lost
    /\ UNCHANGED articleVars
    /\ UNCHANGED <<agentVars, insertVars>>
    /\ UNCHANGED <<chunkVars, streamVars>>

\* Lines 532-540: the loop is left when too many chapters failed;
\* otherwise _identify_visualization_needs (lines 650-830) finds the
\* sections of the chapter text to visualize.
AfterStore ==
    /\ pc = "chapCheck" /\ snapPc = "idle"
    /\ IF TooManyFailures(failures, max_failures)
       THEN broke' = TRUE /\ pc' = "summary" /\ vizLeft' = vizLeft
       ELSE /\ broke' = broke
            /\ \E v \in 0..MaxViz :
                 /\ vizLeft' = v
                 /\ pc' = IF v = 0 THEN "chapNext" ELSE "vizGen"
    /\ UNCHANGED <<suggested, chapters, i, retry_count, chapter_content,
                   failures, max_failures, current_content,
                   manim_code_blocks, final_output, outFile, tmpFile, marker,
                   snapPc, snapArg, ioFaults, calls, produced, everOut>>
    /\ UNCHANGED snapshots
    /\ UNCHANGED lastGen
    /\ UNCHANGED lost
    /\ UNCHANGED articleVars
    /\ UNCHANGED <<agentVars, insertVars>>
    /\ UNCHANGED <<chunkVars, streamVars>>

\* Lines 543-561: one visualization section.  With a code block the
\* reference is inserted and a snapshot is taken.
GenerateManimCode ==
    /\ pc = "vizGen" /\ snapPc = "idle"
    /\ \E ok \in (IF manim_code_blocks < MaxCodeBlocks
                  THEN BOOLEAN ELSE {FALSE}) :
         IF ok
         THEN /\ manim_code_blocks' = manim_code_blocks + 1
              /\ current_content' = InsertCode(current_content, i)
              /\ Snap(current_content')
         ELSE /\ UNCHANGED <<manim_code_blocks, current_content>>
              /\ NoSnap
    /\ vizLeft' = vizLeft - 1
    /\ pc' = IF vizLeft' = 0 THEN "chapNext" ELSE "vizGen"
    /\ UNCHANGED <<suggested, chapters, i, retry_count, chapter_content,
                   failures, max_failures, broke, final_output, outFile,
                   tmpFile, marker, ioFaults, calls, produced,
                   everOut>>
    /\ UNCHANGED lastGen
    /\ UNCHANGED lost
    /\ UNCHANGED articleVars
    /\ UNCHANGED <<agentVars, insertVars>>
    /\ UNCHANGED <<chunkVars, streamVars>>

\* A chapter start that writes no in-progress notice.
StartChapterQuiet ==
    /\ pc = "chapNext" /\ snapPc = "idle"
    /\ IF i < chapters
       THEN /\ i' = i + 1
            /\ NoSnap
            /\ retry_count' = 0
            /\ chapter_content' = None
            /\ calls' = 0
            /\ lastGen' = None
            /\ pc' = "chapGen"
       ELSE /\ pc' = "summary"
            /\ UNCHANGED <<i, retry_count, chapter_content, calls, lastGen>>
            /\ NoSnap
    /\ UNCHANGED <<suggested, chapters, failures, max_failures, broke,
                   current_content, manim_code_blocks, vizLeft, final_output,
                   outFile, tmpFile, marker, ioFaults, produced, everOut>>
    /\ UNCHANGED lost
    /\ UNCHANGED articleVars
    /\ UNCHANGED <<agentVars, insertVars>>
    /\ UNCHANGED <<chunkVars, streamVars>>

\* The for statement of line 496 ends the loop or takes the next chapter,
\* whose body begins with lines 498-505.
StartChapter ==
    /\ pc = "chapNext" /\ snapPc = "idle"
    /\ IF i < chapters
       THEN /\ i' = i + 1
            /\ Snap(WithWait(current_content, WaitChapterLen + NameLen))
            /\ retry_count' = 0
            /\ chapter_content' = None
            /\ calls' = 0
            /\ lastGen' = None
            /\ pc' = "chapGen"
       ELSE /\ pc' = "summary"
            /\ UNCHANGED <<i, retry_count, chapter_content, calls, lastGen>>
            /\ NoSnap
    /\ UNCHANGED <<suggested, chapters, failures, max_failures, broke,
                   current_content, manim_code_blocks, vizLeft, final_output,
                   outFile, tmpFile, marker, ioFaults, produced, everOut>>
    /\ UNCHANGED lost
    /\ UNCHANGED articleVars
    /\ UNCHANGED <<agentVars, insertVars>>
    /\ UNCHANGED <<chunkVars, streamVars>>

\* Lines 578-588.
WriteSummary ==
    /\ pc = "summary" /\ snapPc = "idle"
    /\ \E o \in SummaryOutcomes :
         current_content' = WithSummary(current_content, Run(o))
    /\ Snap(current_content')
    /\ pc' = "assemble"
    /\ UNCHANGED <<suggested, chapters, i, retry_count, chapter_content,
                   failures, max_failures, broke, manim_code_blocks, vizLeft,
                   final_output, outFile, tmpFile, marker, ioFaults, calls, produced, everOut>>
    /\ UNCHANGED lastGen
    /\ UNCHANGED lost
    /\ UNCHANGED articleVars
    /\ UNCHANGED <<agentVars, insertVars>>
    /\ UNCHANGED <<chunkVars, streamVars>>

\* Lines 89-101: the result is assembled, short content is replaced by the
\* minimum content, and the last snapshot is taken.
Assemble ==
    /\ pc = "assemble" /\ snapPc = "idle"
    /\ final_output' = current_content
    /\ current_content' = CheckedContent(current_content, chapters, suggested)
    /\ Snap(current_content')
    /\ pc' = "mark"
    /\ UNCHANGED <<suggested, chapters, i, retry_count, chapter_content,
                   failures, max_failures, broke, manim_code_blocks, vizLeft,
                   outFile, tmpFile, marker, ioFaults, calls,
                   produced, everOut>>
    /\ UNCHANGED lastGen
    /\ UNCHANGED lost
    /\ UNCHANGED articleVars
    /\ UNCHANGED <<agentVars, insertVars>>
    /\ UNCHANGED <<chunkVars, streamVars>>

\* ------------------------------------------- _mark_generation_completed
\* Lines 944-951: the marker file is written.
MarkWrite ==
    /\ pc = "mark" /\ snapPc = "idle"
    /\ marker' = MarkerStatus(FALSE)
    /\ pc' = "markCheck"
    /\ UNCHANGED <<suggested, chapters, i, retry_count, chapter_content,
                   failures, max_failures, broke, current_content,
                   manim_code_blocks, vizLeft, final_output, outFile, tmpFile,
                   snapPc, snapArg, ioFaults, calls, produced,
                   everOut>>
    /\ UNCHANGED snapshots
    /\ UNCHANGED lastGen
    /\ UNCHANGED lost
    /\ UNCHANGED articleVars
    /\ UNCHANGED <<agentVars, insertVars>>
    /\ UNCHANGED <<chunkVars, streamVars>>

\* Lines 953-962: the output file is read back; with placeholder text in
\* it the minimum content replaces the content.
MarkCheck ==
    /\ pc = "markCheck"
    /\ IF outFile.st # "absent" /\ HasPlaceholder(outFile)
       THEN /\ current_content' = EnsureMinimumContent(chapters, suggested)
            /\ pc' = "markOpen"
       ELSE /\ current_content' = current_content
            /\ pc' = "done"
    /\ UNCHANGED <<suggested, chapters, i, retry_count, chapter_content,
                   failures, max_failures, broke, manim_code_blocks, vizLeft,
                   final_output, outFile, tmpFile, marker, snapPc, snapArg,
                   ioFaults, calls, produced, everOut>>
    /\ UNCHANGED snapshots
    /\ UNCHANGED lastGen
    /\ UNCHANGED lost
    /\ UNCHANGED articleVars
    /\ UNCHANGED <<agentVars, insertVars>>
    /\ UNCHANGED <<chunkVars, streamVars>>

\* Line 963: the output file is opened for writing, which truncates it.
MarkOpen ==
    /\ pc = "markOpen"
    /\ outFile' = Truncated
    /\ pc' = "markPut"
    /\ UNCHANGED <<suggested, chapters, i, retry_count, chapter_content,
                   failures, max_failures, broke, current_content,
                   manim_code_blocks, vizLeft, final_output, tmpFile, marker,
                   snapPc, snapArg, ioFaults, calls, produced,
                   everOut>>
    /\ UNCHANGED snapshots
    /\ UNCHANGED lastGen
    /\ UNCHANGED lost
    /\ UNCHANGED articleVars
    /\ UNCHANGED <<agentVars, insertVars>>
    /\ UNCHANGED <<chunkVars, streamVars>>

\* Line 964: the rendering of the minimum content is written.
MarkPut ==
    /\ pc = "markPut"
    /\ outFile' = Whole(current_content)
    /\ pc' = "done"
    /\ UNCHANGED <<suggested, chapters, i, retry_count, chapter_content,
                   failures, max_failures, broke, current_content,
                   manim_code_blocks, vizLeft, final_output, tmpFile, marker,
                   snapPc, snapArg, ioFaults, calls, produced,
                   everOut>>
    /\ UNCHANGED snapshots
    /\ UNCHANGED lastGen
    /\ UNCHANGED lost
    /\ UNCHANGED articleVars
    /\ UNCHANGED <<agentVars, insertVars>>
    /\ UNCHANGED <<chunkVars, streamVars>>

\* Lines 966-967: a file operation of _mark_generation_completed raises;
\* the error is logged and the function returns.
MarkFault ==
    /\ pc \in {"mark", "markCheck", "markOpen", "markPut"} /\ snapPc = "idle"
    /\ pc = "markCheck" => outFile.st # "absent"
    /\ CanFault
    /\ ioFaults' = ioFaults + 1
    /\ pc' = "done"
    /\ UNCHANGED <<suggested, chapters, i, retry_count, chapter_content,
                   failures, max_failures, broke, current_content,
                   manim_code_blocks, vizLeft, final_output, outFile, tmpFile,
                   marker, snapPc, snapArg, calls, produced,
                   everOut>>
    /\ UNCHANGED snapshots
    /\ UNCHANGED lastGen
    /\ UNCHANGED lost
    /\ UNCHANGED articleVars
    /\ UNCHANGED <<agentVars, insertVars>>
    /\ UNCHANGED <<chunkVars, streamVars>>

Next ==
    \/ SetupOutputFiles
    \/ SnapWriteTmp \/ SnapRemove \/ SnapRename \/ SnapFault
    \/ SnapDirectOpen \/ SnapDirectWrite \/ SnapDirectFault
    \/ GenerateTitles \/ InitialSnapshot \/ GenerateChapterStructure
    \/ BeginChapters \/ StartChapter \/ Attempt \/ StoreChapter
    \/ AfterStore \/ GenerateManimCode \/ WriteSummary \/ Assemble
    \/ MarkWrite \/ MarkCheck \/ MarkOpen \/ MarkPut \/ MarkFault

Spec == Init /\ [][Next]_vars

\* Every call that generate_script waits for returns or raises at some
\* time, so a step that can be taken is taken.
SpecLive == Spec /\ WF_vars(Next)

\* ------------------------------------------------------------ the caller
\* The task that runs generate_script is cancelled: CancelledError is
\* raised at the await the task is suspended in (lines 342, 398, 509, 538,
\* 548, 581).  It is not an Exception, so the handlers of lines 514, 560,
\* 563, 583 and 108 let it pass and generate_script is left at once.
Cancel ==
    /\ snapPc = "idle"
    /\ \/ pc \in {"titles", "structure", "vizGen", "summary"}
       \/ pc = "chapGen" /\ RetryAgain(retry_count, chapter_content)
       \/ pc = "chapCheck" /\ ~TooManyFailures(failures, max_failures)
    /\ pc' = "cancelled"
    /\ UNCHANGED <<suggested, chapters, i, retry_count, chapter_content,
                   failures, max_failures, broke, current_content,
                   manim_code_blocks, vizLeft, final_output, outFile, tmpFile,
                   marker, snapPc, snapArg, ioFaults, calls, produced,
                   everOut, snapshots, lastGen>>
    /\ UNCHANGED lost
    /\ UNCHANGED articleVars
    /\ UNCHANGED <<agentVars, insertVars>>
    /\ UNCHANGED <<chunkVars, streamVars>>

\* generate_script is called again on a workflow whose earlier call has
\* returned, lines 63-70: keyword, audience level, the paths of a new
\* output file and _plan_completed are set.  pc = "again" is line 72 of
\* the second call.
GenerateScriptAgain ==
    /\ pc = "done"
    /\ pc' = "again"
    /\ outFile' = Absent
    /\ tmpFile' = Absent
    /\ marker' = "none"
    /\ UNCHANGED <<suggested, chapters, i, retry_count, chapter_content,
                   failures, max_failures, broke, current_content,
                   manim_code_blocks, vizLeft, final_output, snapPc, snapArg,
                   ioFaults, calls, produced, everOut, snapshots, lastGen>>
    /\ UNCHANGED lost
    /\ UNCHANGED articleVars
    /\ UNCHANGED <<agentVars, insertVars>>
    /\ UNCHANGED <<chunkVars, streamVars>>

NextCaller == Next \/ Cancel \/ GenerateScriptAgain

SpecCaller == Init /\ [][NextCaller]_vars

\* ================================================== ArticleWriterAgent
\* The plan tool: the active step is the first step that is not completed,
\* None when every step is completed.
ActiveIndex(st) ==
    IF \A j \in DOMAIN st : st[j]
    THEN NoIndex
    ELSE CHOOSE j \in DOMAIN st : ~st[j] /\ \A k \in DOMAIN st : k < j => st[k]

\* The plan tool's mark_step with step_status "completed": it completes
\* the step, leaves the plan as it is, or raises.
MarkOutcomes ==
    IF toolFaults < MaxToolFaults THEN {"ok", "none", "raise"} ELSE {"ok"}
MarkStep(st, idx, o) == IF o = "ok" THEN [st EXCEPT ![idx] = TRUE] ELSE st
Faults(o) == IF o = "ok" THEN toolFaults ELSE toolFaults + 1

\* Lines 506-510: the counter is touched only when the index equals
\* _last_step_index; it is set to 1 when it does not exist yet.
SameStep(last, idx) == last # Unset /\ last = idx
Counted(last, cnt, idx) ==
    IF SameStep(last, idx)
    THEN (IF cnt = Unset THEN 1 ELSE cnt + 1)
    ELSE cnt

\* Line 515.
Stalled(last, cnt, idx) ==
    SameStep(last, idx) /\ Counted(last, cnt, idx) >= StallLimit

\* Lines 548-625: the writing stage of a step index.
StageOf(idx, n) ==
    IF idx = 0 THEN "headline"
    ELSE IF idx = 1 THEN "introduction"
    ELSE IF 2 <= idx /\ idx < n - 2 THEN "sections"
    ELSE IF idx = n - 2 THEN "conclusion"
    ELSE "review"

\* Lines 563 and 575: the step analyses an article that is already stored.
AlreadyAnalysed(idx, n, secs) ==
    StageOf(idx, n) = "sections" /\ (idx - 2) \in secs

\* think, lines 452-648, for a step index read at line 457.  b is the
\* result of the inherited think, o the outcome of a mark_step call.
\* Lines 514-542: forced advance.
ThinkForce(idx, o) ==
    /\ Stalled(last_step_index, same_step_count, idx)
    /\ forcedAt' = Append(forcedAt, polls + 1)
    /\ toolFaults' = Faults(o)
    /\ step_status' = MarkStep(step_status, idx, o)
    /\ UNCHANGED article_sections
    /\ IF o = "raise"
       THEN \* the except branch of line 538, the counter is not reset
            /\ same_step_count' =
                   Counted(last_step_index, same_step_count, idx)
            /\ current_step_index' = idx
            /\ UNCHANGED last_step_index
            /\ writing_stage' = "review"
            /\ apc' = "think"
       ELSE /\ same_step_count' = 0
            /\ current_step_index' = ActiveIndex(step_status')
            /\ IF current_step_index' = last_step_index
               THEN \* line 537 raises, line 538 catches
                    /\ UNCHANGED last_step_index
                    /\ writing_stage' = "review"
                    /\ apc' = "think"
               ELSE /\ last_step_index' = current_step_index'
                    /\ IF current_step_index' = NoIndex
                       THEN \* line 562 compares None with 2: TypeError,
                            \* caught in run, line 123
                            /\ UNCHANGED writing_stage
                            /\ apc' = "aborted"
                       ELSE /\ writing_stage' =
                                   StageOf(current_step_index', PlanSteps)
                            /\ apc' = "stage"

\* Lines 504-512 and 545 without a forced advance.
ThinkCount(idx) ==
    /\ ~Stalled(last_step_index, same_step_count, idx)
    /\ same_step_count' = Counted(last_step_index, same_step_count, idx)
    /\ last_step_index' = idx
    /\ current_step_index' = idx
    /\ writing_stage' = StageOf(idx, PlanSteps)
    /\ apc' = "stage"
    /\ UNCHANGED <<step_status, article_sections, toolFaults, forcedAt>>

\* Lines 626-636: no step index.
ThinkNoIndex ==
    /\ current_step_index' = NoIndex
    /\ writing_stage' = "review"
    /\ apc' = "super"
    /\ UNCHANGED <<step_status, last_step_index, same_step_count,
                   article_sections, toolFaults, forcedAt>>

Think ==
    /\ apc = "think" /\ polls < MaxPolls
    /\ polls' = polls + 1
    /\ LET idx == ActiveIndex(step_status)
       IN /\ observed' = Append(observed, idx)
          /\ IF idx = NoIndex
             THEN ThinkNoIndex
             ELSE \/ ThinkCount(idx)
                  \/ \E o \in MarkOutcomes : ThinkForce(idx, o)
    /\ UNCHANGED <<section_text, result>>
    /\ UNCHANGED videoVars
    /\ UNCHANGED <<agentVars, insertVars>>
    /\ UNCHANGED <<chunkVars, streamVars>>

\* Lines 574-590: the article of the step is stored already; the step is
\* marked completed and think is called again.  A raising mark_step leaves
\* think and is caught in run, line 123.
ThinkSkip ==
    /\ apc = "stage"
    /\ AlreadyAnalysed(current_step_index, PlanSteps, article_sections)
    /\ \E o \in MarkOutcomes :
         /\ toolFaults' = Faults(o)
         /\ step_status' = MarkStep(step_status, current_step_index, o)
         /\ IF o = "raise"
            THEN apc' = "aborted" /\ UNCHANGED current_step_index
            ELSE /\ apc' = "think"
                 /\ current_step_index' = ActiveIndex(step_status')
    /\ UNCHANGED <<last_step_index, same_step_count, writing_stage,
                   article_sections, polls, observed, forcedAt>>
    /\ UNCHANGED <<section_text, result>>
    /\ UNCHANGED videoVars
    /\ UNCHANGED <<agentVars, insertVars>>
    /\ UNCHANGED <<chunkVars, streamVars>>

\* Lines 638-648: the prompt is set and the inherited think decides
\* whether act follows.
ThinkSuper ==
    /\ \/ apc = "super"
       \/ /\ apc = "stage"
          /\ ~AlreadyAnalysed(current_step_index, PlanSteps, article_sections)
    /\ \E b \in BOOLEAN : apc' = IF b THEN "act" ELSE "think"
    /\ UNCHANGED <<step_status, current_step_index, last_step_index,
                   same_step_count, writing_stage, article_sections, polls,
                   toolFaults, observed, forcedAt>>
    /\ UNCHANGED <<section_text, result>>
    /\ UNCHANGED videoVars
    /\ UNCHANGED <<agentVars, insertVars>>
    /\ UNCHANGED <<chunkVars, streamVars>>

\* A store that replaces the text of an article analysed before.
StoreSectionOverwrite(secs, k, t) ==
    [j \in DOMAIN secs \cup {k} |-> IF j = k THEN t ELSE secs[j]]

\* Lines 690-696: the result is stored under the article index unless the
\* dictionary has the index already.
StoreSection(secs, k, t) ==
    IF k \in DOMAIN secs
    THEN secs
    ELSE [j \in DOMAIN secs \cup {k} |-> IF j = k THEN t ELSE secs[j]]

\* act, lines 650-729: the result is stored by stage, the step is marked
\* completed (a raising mark_step is logged, lines 716-717); in the review
\* stage the article is assembled and the run may end.
Act ==
    /\ apc = "act"
    /\ \E t \in Results :
         /\ result' = t
         /\ section_text' =
              IF /\ current_step_index # NoIndex
                 /\ 2 <= current_step_index
                 /\ current_step_index < PlanSteps - 2
              THEN StoreSection(section_text, current_step_index - 2, t)
              ELSE section_text
    /\ article_sections' = DOMAIN section_text'
    /\ IF current_step_index # NoIndex
       THEN \E o \in MarkOutcomes :
              /\ toolFaults' = Faults(o)
              /\ step_status' = MarkStep(step_status, current_step_index, o)
       ELSE UNCHANGED <<toolFaults, step_status>>
    /\ IF writing_stage = "review"
       THEN \E fin \in BOOLEAN : apc' = IF fin THEN "finished" ELSE "think"
       ELSE apc' = "think"
    /\ UNCHANGED <<current_step_index, last_step_index, same_step_count,
                   writing_stage, polls, observed, forcedAt>>
    /\ UNCHANGED videoVars
    /\ UNCHANGED <<agentVars, insertVars>>
    /\ UNCHANGED <<chunkVars, streamVars>>

\* The agent loop ends after its last step.
StopPolling ==
    /\ apc = "think" /\ polls = MaxPolls
    /\ apc' = "finished"
    /\ UNCHANGED <<step_status, current_step_index, last_step_index,
                   same_step_count, writing_stage, article_sections, polls,
                   toolFaults, observed, forcedAt>>
    /\ UNCHANGED <<section_text, result>>
    /\ UNCHANGED videoVars
    /\ UNCHANGED <<agentVars, insertVars>>
    /\ UNCHANGED <<chunkVars, streamVars>>

NextArticle == Think \/ ThinkSkip \/ ThinkSuper \/ Act \/ StopPolling

SpecArticle == Init /\ [][NextArticle]_vars

\* act as a function of the step and the result: act is called for any
\* step index of the plan, with the writing stage think sets for it.
ActForStep ==
    /\ apc = "think"
    /\ \E idx \in 0..(PlanSteps - 1) :
         /\ current_step_index' = idx
         /\ writing_stage' = StageOf(idx, PlanSteps)
    /\ apc' = "act"
    /\ UNCHANGED <<step_status, last_step_index, same_step_count,
                   article_sections, polls, toolFaults, observed, forcedAt>>
    /\ UNCHANGED <<section_text, result>>
    /\ UNCHANGED videoVars
    /\ UNCHANGED <<agentVars, insertVars>>
    /\ UNCHANGED <<chunkVars, streamVars>>

NextSections == ActForStep \/ Act

SpecSections == Init /\ [][NextSections]_vars

\* ==================================================== VideoScriptAgent
\* What the plan request yields: the call of the language model fails
\* (_call_llm returns an error text, lines 109-111), the answer is no JSON,
\* the answer is the JSON null, or it is a JSON list of n titles.
PlanOutcomes ==
    {[kind |-> "fail", n |-> 0], [kind |-> "text", n |-> 0],
     [kind |-> "null", n |-> 0]}
    \cup {[kind |-> "list", n |-> n] : n \in 0..MaxPlan}

\* _generate_plan, lines 266-288: json.loads decides; only a decoding
\* error selects the fallback plan of four sections.
GeneratePlan(o) ==
    CASE o.kind \in {"fail", "text"} -> FallbackPlanLen
      [] o.kind = "null" -> NoPlan
      [] OTHER -> o.n

\* Line 394: "not self.plan" is true of None and of the empty list.
PlanMissing(n) == n = NoPlan \/ n = 0

\* run, lines 374-389: the state of an earlier run is reset and the path
\* of a new script file is set.  Without a request run returns at once.
AgentStart ==
    /\ gpc = "start"
    /\ \E request \in BOOLEAN :
         IF request
         THEN /\ gpc' = "plan"
              /\ script_file' = FileAbsent
              /\ returned' = returned
         ELSE /\ gpc' = "finished"
              /\ script_file' = script_file
              /\ returned' = "error: no keywords"
    /\ plan' = NoPlan
    /\ script_content' = {}
    /\ UNCHANGED section_no
    /\ UNCHANGED <<videoVars, articleVars, insertVars>>
    /\ UNCHANGED <<chunkVars, streamVars>>

\* Lines 392-395: the plan is generated; without a plan ValueError is
\* raised, which the handler of line 471 turns into the returned message.
AgentGeneratePlan ==
    /\ gpc = "plan"
    /\ \E o \in PlanOutcomes : plan' = GeneratePlan(o)
    /\ IF PlanMissing(plan')
       THEN gpc' = "finished" /\ returned' = "error: plan"
       ELSE gpc' = "titles" /\ returned' = returned
    /\ UNCHANGED <<section_no, script_content, script_file>>
    /\ UNCHANGED <<videoVars, articleVars, insertVars>>
    /\ UNCHANGED <<chunkVars, streamVars>>

\* _generate_titles, lines 290-326: the title suggestions (or the
\* placeholder title) start the script file; when that write fails IOError
\* is raised and run returns the error message.
AgentGenerateTitles ==
    /\ gpc = "titles"
    /\ \E saved \in BOOLEAN :
         IF saved
         THEN /\ script_file' = FileWith(<<[sec |-> 0, code |-> FALSE]>>)
              /\ gpc' = "section"
              /\ returned' = returned
         ELSE /\ script_file' = script_file
              /\ gpc' = "finished"
              /\ returned' = "error: titles"
    /\ UNCHANGED <<plan, section_no, script_content>>
    /\ UNCHANGED <<videoVars, articleVars, insertVars>>
    /\ UNCHANGED <<chunkVars, streamVars>>

\* Lines 401-456: one section of the plan.  The text (or a placeholder
\* for a failed or empty answer) is stored, Manim code is generated or
\* not, and both are appended to the script file; a failed append is
\* logged (lines 453-455).
AgentSection ==
    /\ gpc = "section"
    /\ section_no < plan
    /\ section_no' = section_no + 1
    /\ script_content' = script_content \cup {section_no'}
    /\ \E code \in BOOLEAN, saved \in BOOLEAN :
         script_file' =
             IF saved
             THEN FileWith(Append(script_file.lines,
                                  [sec |-> section_no', code |-> code]))
             ELSE script_file
    /\ UNCHANGED <<gpc, plan, returned>>
    /\ UNCHANGED <<videoVars, articleVars, insertVars>>
    /\ UNCHANGED <<chunkVars, streamVars>>

\* Lines 458-469: the state becomes FINISHED and the final message is
\* returned.
AgentFinish ==
    /\ gpc = "section"
    /\ section_no = plan
    /\ gpc' = "finished"
    /\ returned' = "done"
    /\ UNCHANGED <<plan, section_no, script_content, script_file>>
    /\ UNCHANGED <<videoVars, articleVars, insertVars>>
    /\ UNCHANGED <<chunkVars, streamVars>>

NextAgent ==
    \/ AgentStart \/ AgentGeneratePlan \/ AgentGenerateTitles
    \/ AgentSection \/ AgentFinish

SpecAgent == Init /\ [][NextAgent]_vars

\* ============================================ anchor insertion (text)
\* The characters of a chapter's text; "#" stands for the heading that
\* line 527 puts before the chapter, "r1".. for the code references.
Chars == {"a", "b"}
Heading == "#"
RefToks == <<"r1", "r2", "r3">>

Texts(n) == UNION {[1..k -> Chars] : k \in 0..n}

\* str.find: the offset of the first occurrence, -1 when there is none.
Find(s, t) ==
    LET hits == {p \in 0..(Len(s) - Len(t)) : SubSeq(s, p + 1, p + Len(t)) = t}
    IN  IF hits = {} THEN -1
        ELSE CHOOSE p \in hits : \A q \in hits : p <= q

\* Line 553.
InsertionPoint(s, t) == Find(s, t) + Len(t)

InsertAt(s, p, r) == SubSeq(s, 1, p) \o <<r>> \o SubSeq(s, p + 1, Len(s))

\* Lines 553-556: the reference is put at the insertion point when that
\* is positive, and nowhere otherwise.
InsertRef(s, t, r) ==
    IF InsertionPoint(s, t) > 0 THEN InsertAt(s, InsertionPoint(s, t), r) ELSE s

\* The pieces of a chapter's text that _identify_visualization_needs can
\* name as the content of a section: text between markers (stripped,
\* possibly empty), a paragraph, or any piece the language model copied
\* that content.find locates.
Pieces(sec) ==
    {SubSeq(sec, q[1], q[2]) :
        q \in {c \in (1..(Len(sec) + 1)) \X (0..Len(sec)) : c[2] >= c[1] - 1}}

\* The chapter's text as it was stored, and as it is now.
SecOf(d) == SubSeq(d, secStart + 1, Len(d))

\* Line 527 has appended the heading and the chapter's text to what the
\* script held, and _identify_visualization_needs has answered.
InitInsert ==
    /\ InitRun
    /\ \E prev \in Texts(MaxPrevLen), sec \in Texts(MaxSecLen) \ {<<>>} :
         /\ doc = prev \o <<Heading>> \o sec
         /\ secStart = Len(prev) + 1
         /\ \E n \in 1..MaxAnchors : \E f \in [1..n -> Pieces(sec)] :
              todo = [k \in 1..n |-> [content |-> f[k], ref |-> RefToks[k]]]
    /\ doc0 = doc
    /\ done = <<>>

\* Lines 548-556 with a code block: the block is kept and its reference
\* inserted.
VizInsert ==
    /\ todo # <<>>
    /\ manim_code_blocks' = manim_code_blocks + 1
    /\ doc' = InsertRef(doc, Head(todo).content, Head(todo).ref)
    /\ done' = Append(done, [content |-> Head(todo).content,
                             ref |-> Head(todo).ref,
                             ip |-> InsertionPoint(doc, Head(todo).content)])
    /\ todo' = Tail(todo)
    /\ UNCHANGED <<doc0, secStart>>
    /\ UNCHANGED <<pc, suggested, chapters, i, retry_count, chapter_content,
                   failures, max_failures, broke, current_content, vizLeft>>
    /\ UNCHANGED <<final_output, outFile, tmpFile, marker, snapPc, snapArg,
                   ioFaults, calls, produced, everOut, snapshots, lastGen,
                   lost>>
    /\ UNCHANGED <<articleVars, agentVars>>
    /\ UNCHANGED <<chunkVars, streamVars>>

\* Lines 548-549 and 560-562: no code block, or an exception; the next
\* section is tried.
VizNone ==
    /\ todo # <<>>
    /\ todo' = Tail(todo)
    /\ UNCHANGED <<doc, doc0, secStart, done>>
    /\ UNCHANGED <<videoVars, articleVars, agentVars>>
    /\ UNCHANGED <<chunkVars, streamVars>>

NextInsert == VizInsert \/ VizNone

SpecInsert == InitInsert /\ [][NextInsert]_vars

\* ==================================================== ChunkManagerTool
\* One document and its chunks in the chunk collection.  An operation is a
\* coroutine: it runs from one await of the storage to the next, and other
\* operations on the document run in between.  The storage calls that come
\* before _adjust_positions are taken as one step.
ChunkIds == 1..MaxChunkIds

\* position is None.
NoPosition == -1

\* Line 181: without a position the chunk is put at the end.
DefaultPosition == 999999

\* get_document_chunks (document.py 148-165) followed by the sort of line
\* 596: the chunks in ascending order of position; the order of chunks of
\* equal position is the one the database happens to return.
SortedLists(st) ==
    LET n == Cardinality(DOMAIN st)
    IN {s \in [1..n -> DOMAIN st] :
          /\ \A j, k \in 1..n : j # k => s[j] # s[k]
          /\ \A j \in 1..n : j < n => st[s[j]] <= st[s[j + 1]]}

\* execute, lines 69-79: the document exists and the operation is started.
Begin(p) ==
    /\ opc[p] = "idle"
    /\ started < MaxOps
    /\ started' = started + 1

\* The operation goes on to _adjust_positions.
ToAdjust(p) ==
    /\ opc' = [opc EXCEPT ![p] = "adjust"]
    /\ UNCHANGED <<olist, oidx, lastDone>>

\* The operation returns a result with success = False.
ReturnFailure ==
    /\ lastDone' = "fail"
    /\ UNCHANGED <<opc, olist, oidx>>

\* _add_chunk, lines 170-196.
ChunkAdd(p) ==
    /\ Begin(p)
    /\ nextId <= MaxChunkIds
    /\ \E position \in (0..MaxPosition) \cup {NoPosition} :
         store' = store @@ (nextId :> IF position = NoPosition
                                      THEN DefaultPosition ELSE position)
    /\ nextId' = nextId + 1
    /\ ToAdjust(p)
    /\ UNCHANGED <<videoVars, articleVars, agentVars, insertVars, streamVars>>

\* _delete_chunk, lines 308-339.
ChunkDelete(p) ==
    /\ Begin(p)
    /\ \E id \in ChunkIds :
         IF id \in DOMAIN store
         THEN /\ store' = [c \in DOMAIN store \ {id} |-> store[c]]
              /\ ToAdjust(p)
         ELSE /\ store' = store
              /\ ReturnFailure
    /\ UNCHANGED nextId
    /\ UNCHANGED <<videoVars, articleVars, agentVars, insertVars, streamVars>>

\* _merge_chunks, lines 363-424, for two target ids: the merged chunk gets
\* the smaller position and the targets are deleted.
ChunkMerge(p) ==
    /\ Begin(p)
    /\ nextId <= MaxChunkIds
    /\ \E t \in [1..2 -> ChunkIds] :
         IF \A k \in 1..2 : t[k] \in DOMAIN store
         THEN /\ store' =
                   [c \in DOMAIN store \ {t[1], t[2]} |-> store[c]]
                   @@ (nextId :> IF store[t[1]] <= store[t[2]]
                                 THEN store[t[1]] ELSE store[t[2]])
              /\ nextId' = nextId + 1
              /\ ToAdjust(p)
         ELSE /\ UNCHANGED <<store, nextId>>
              /\ ReturnFailure
    /\ UNCHANGED <<videoVars, articleVars, agentVars, insertVars, streamVars>>

\* _split_chunk, lines 452-515: the marker cuts the content into 1 + k
\* pieces; piece i becomes a new chunk at position + i.
ChunkSplit(p) ==
    /\ Begin(p)
    /\ \E id \in ChunkIds, k \in 0..(MaxChunkIds + 1 - nextId) :
         IF id \in DOMAIN store /\ k > 0
         THEN /\ store' = store @@ [c \in nextId..(nextId + k - 1)
                                      |-> store[id] + (c - nextId) + 1]
              /\ nextId' = nextId + k
              /\ ToAdjust(p)
         ELSE /\ UNCHANGED <<store, nextId>>
              /\ ReturnFailure
    /\ UNCHANGED <<videoVars, articleVars, agentVars, insertVars, streamVars>>

\* The loop of _reorder_chunks, lines 548-568: target i gets position i;
\* the loop is left at the first target that does not exist.
FirstMissing(st, t) ==
    LET missing == {k \in 1..Len(t) : t[k] \notin DOMAIN st}
    IN  IF missing = {} THEN Len(t) + 1
        ELSE CHOOSE k \in missing : \A j \in missing : k <= j
ReorderStore(st, t) ==
    [c \in DOMAIN st |->
        LET ks == {k \in 1..(FirstMissing(st, t) - 1) : t[k] = c}
        IN  IF ks = {} THEN st[c]
            ELSE (CHOOSE k \in ks : \A j \in ks : j <= k) - 1]

\* _reorder_chunks, lines 548-572, for one or two target ids.
ChunkReorder(p) ==
    /\ Begin(p)
    /\ \E n \in 1..2 : \E t \in [1..n -> ChunkIds] :
         /\ store' = ReorderStore(store, t)
         /\ IF FirstMissing(store, t) > n THEN ToAdjust(p) ELSE ReturnFailure
    /\ UNCHANGED nextId
    /\ UNCHANGED <<videoVars, articleVars, agentVars, insertVars, streamVars>>

\* _adjust_positions, lines 592-596: the chunks are read and sorted.
AdjustRead(p) ==
    /\ opc[p] = "adjust"
    /\ \E s \in SortedLists(store) :
         olist' = [olist EXCEPT ![p] =
                     [j \in 1..Len(s) |-> [id |-> s[j], position |-> store[s[j]]]]]
    /\ oidx' = [oidx EXCEPT ![p] = 1]
    /\ opc' = [opc EXCEPT ![p] = "renumber"]
    /\ UNCHANGED <<store, nextId, lastDone, started>>
    /\ UNCHANGED <<videoVars, articleVars, agentVars, insertVars, streamVars>>

\* _adjust_positions, lines 598-604: the loop runs to its next update_chunk,
\* which writes the index into the chunk of that id if it still exists; at
\* the end of the list the operation returns with success = True.
AdjustWrite(p) ==
    /\ opc[p] = "renumber"
    /\ LET pending == {j \in oidx[p]..Len(olist[p]) :
                          olist[p][j].position # j - 1}
       IN  IF pending = {}
           THEN /\ opc' = [opc EXCEPT ![p] = "idle"]
                /\ lastDone' = "ok"
                /\ UNCHANGED <<store, oidx>>
           ELSE LET j == CHOOSE k \in pending : \A m \in pending : k <= m
                    c == olist[p][j].id
                IN  /\ store' = IF c \in DOMAIN store
                                THEN [store EXCEPT ![c] = j - 1] ELSE store
                    /\ oidx' = [oidx EXCEPT ![p] = j + 1]
                    /\ UNCHANGED <<opc, lastDone>>
    /\ UNCHANGED <<nextId, olist, started>>
    /\ UNCHANGED <<videoVars, articleVars, agentVars, insertVars, streamVars>>

NextChunks ==
    \E p \in Procs :
        \/ ChunkAdd(p) \/ ChunkDelete(p) \/ ChunkMerge(p) \/ ChunkSplit(p)
        \/ ChunkReorder(p) \/ AdjustRead(p) \/ AdjustWrite(p)

SpecChunks == Init /\ [][NextChunks]_vars

\* ====================================================== StreamProcessor
\* One stream response.  events is the sequence of the types of the SSE
\* messages yielded so far; schunks is self.chunks of the document stream
\* processor, each chunk by whether its content is a string.
StreamKinds == {"plain", "document"}

\* create_stream_response (261-275) and create_document_stream (278-297):
\* a processor is made for the stream and iterated.
StreamOpen ==
    /\ spc = "closed"
    /\ \E kind \in StreamKinds : skind' = kind
    /\ spc' = "iter"
    /\ UNCHANGED <<events, schunks, sitems>>
    /\ UNCHANGED <<videoVars, articleVars, agentVars, insertVars, chunkVars>>

\* transform_llm_chunk, lines 153-208: it raises on a chunk it cannot read;
\* otherwise a chunk that is not partial is stored.
Transformed(chs, is_partial, content) ==
    IF is_partial THEN chs ELSE Append(chs, content)

\* process_stream, lines 100-113: one item of the source is transformed and
\* formatted; if either raises, an error event is yielded instead.
StreamItem ==
    /\ spc = "iter"
    /\ sitems < MaxItems
    /\ sitems' = sitems + 1
    /\ \E transformed, formatted, is_partial \in BOOLEAN,
          content \in {"str", "other"} :
         IF skind = "document"
         THEN IF transformed
              THEN /\ schunks' = Transformed(schunks, is_partial, content)
                   /\ events' = Append(events, IF formatted THEN "chunk"
                                               ELSE "error")
              ELSE /\ schunks' = schunks
                   /\ events' = Append(events, "error")
         ELSE /\ schunks' = schunks
              /\ events' = Append(events, IF formatted THEN "chunk"
                                          ELSE "error")
    /\ UNCHANGED <<spc, skind>>
    /\ UNCHANGED <<videoVars, articleVars, agentVars, insertVars, chunkVars>>

\* process_stream, lines 114-117: the source raises.
StreamSourceRaises ==
    /\ spc = "iter"
    /\ events' = Append(events, "error")
    /\ spc' = "finally"
    /\ UNCHANGED <<skind, schunks, sitems>>
    /\ UNCHANGED <<videoVars, articleVars, agentVars, insertVars, chunkVars>>

\* process_stream, line 101: the source is exhausted.
StreamSourceEnds ==
    /\ spc = "iter"
    /\ spc' = "finally"
    /\ UNCHANGED <<skind, events, schunks, sitems>>
    /\ UNCHANGED <<videoVars, articleVars, agentVars, insertVars, chunkVars>>

\* process_stream, lines 118-121: the finally clause yields the complete
\* event; process_llm_stream goes on after it (line 236-239).
StreamFinally ==
    /\ spc = "finally"
    /\ events' = Append(events, "complete")
    /\ spc' = IF skind = "document" THEN "post" ELSE "done"
    /\ UNCHANGED <<skind, schunks, sitems>>
    /\ UNCHANGED <<videoVars, articleVars, agentVars, insertVars, chunkVars>>

\* get_document_content, lines 210-222: the join raises when the content of
\* a stored chunk is not a string.
ContentJoins(chs) == \A k \in 1..Len(chs) : chs[k] = "str"

\* process_llm_stream, lines 241-258: the whole document is sent as a
\* complete event, or an error event if it cannot be put together.
StreamPost ==
    /\ spc = "post"
    /\ events' = Append(events, IF ContentJoins(schunks) THEN "complete"
                                ELSE "error")
    /\ spc' = "done"
    /\ UNCHANGED <<skind, schunks, sitems>>
    /\ UNCHANGED <<videoVars, articleVars, agentVars, insertVars, chunkVars>>

NextStream ==
    \/ StreamOpen \/ StreamItem \/ StreamSourceRaises \/ StreamSourceEnds
    \/ StreamFinally \/ StreamPost

SpecStream == Init /\ [][NextStream]_vars

\* ================================================================ claims
\* C1: for every chapter of the section loop the generator is invoked at
\* most 1 + max_retries times, whatever mix of exceptions, empty results
\* and too-short results it returns.
C1_RetryBound == calls <= 1 + max_retries

\* C1 witness: a chapter whose three attempts were all rejected.
C1_Exhausted ==
    /\ pc = "chapGen"
    /\ calls = 1 + max_retries
    /\ Falsy(chapter_content)

\* C2: when the attempts of a chapter are exhausted the loop goes on and
\* stores a non-empty fallback text (description plus failed-generation
\* sentence); the text stored for a chapter is never None or empty.
C2_FallbackStored ==
    pc = "chapCheck" =>
        /\ ~chapter_content.nil
        /\ chapter_content.len > 0
        /\ Len(current_content.parts) > 0
        /\ LET last == current_content.parts[Len(current_content.parts)]
           IN /\ last.i = i
              /\ last.k \in {"gen", "fallback"}
              /\ last.k = "fallback" =>
                     chapter_content.len = NameLen + FallbackMarkLen

\* C2 witness: a chapter stored with the fallback text.
C2_FallbackCase ==
    /\ pc = "chapCheck"
    /\ failures > 0
    /\ current_content.parts[Len(current_content.parts)].k = "fallback"

\* C3: once the failure counter has reached max_failures the generator is
\* not invoked for any later chapter: a chapter is in generation only while
\* the counter is below the threshold.
C3_NoGenerationAfterThreshold == pc = "chapGen" => failures < max_failures

\* C3 witness: six chapters, threshold three, chapters 3, 4 and 5 failed
\* after chapters 1 and 2 were generated; chapter 6 was never started.
C3_SixChapterStop ==
    /\ chapters = 6 /\ max_failures = 3
    /\ broke /\ failures = 3 /\ i = 5
    /\ produced = {1, 2}
    /\ pc = "summary"

\* C4: the marker says "completed" only if every chapter was processed,
\* and a run stopped early by the failure threshold ends with the marker
\* "error".
C4_CompletedOnlyIfAllProcessed ==
    /\ marker = "completed" => i = chapters
    /\ (pc = "done" /\ broke /\ i < chapters) => marker = "error"

\* C5: every run that returns has written the final snapshot of the
\* content and a marker.
C5_AlwaysFinalized ==
    pc = "done" =>
        /\ marker # "none"
        /\ outFile.st = "whole"
        /\ outFile.body \in {current_content, UpdateArg(current_content)}

\* C6: the text of every chapter that was generated is present in the
\* output file when the run has returned.
C6_CompletedWorkKept ==
    (pc = "done" /\ ioFaults = 0) =>
        \A j \in produced :
            \E n \in 1..Len(outFile.body.parts) :
                outFile.body.parts[n] = Part("gen", j)

\* C7: on the temporary-file path of a snapshot taken after the first one
\* the output file is at every point a complete rendering, never absent
\* and never truncated.
C7_TargetNeverAbsent ==
    (everOut /\ ioFaults = 0 /\ snapPc \in {"tmp", "remove", "rename"}) =>
        outFile.st = "whole"

\* C8: after finalization the output file holds no placeholder text.
C8_NoPlaceholderAtEnd ==
    (pc = "done" /\ ioFaults = 0) => ~outFile.body.ph

\* C9: once the marker exists the output file is not written again.
C9_NoWriteAfterMarker == [][marker # "none" => outFile' = outFile]_vars

C11_StallAtThirdPoll ==
    LET n == Len(observed)
        run == n - CHOOSE k \in 0..(n - 1) :
                       /\ k = 0 \/ observed[k] # observed[n]
                       /\ \A m \in (k + 1)..n : observed[m] = observed[n]
    IN (/\ n > 0
        /\ observed[n] # NoIndex
        /\ \A k \in 1..Len(forcedAt) : forcedAt[k] = n)
       => ((forcedAt # <<>>) <=> (run = StallLimit))

\* C12: the repeat counter is reset whenever the index read differs from
\* the one read at the poll before, so after such a poll it is at most 1.
C12_CounterResetOnChange ==
    LET n == Len(observed)
    IN (n >= 2 /\ observed[n] # NoIndex /\ observed[n] # observed[n - 1])
       => same_step_count <= 1

\* C13: a forced advance completes the stuck step and no other, two forced
\* advances are at least 3 polls apart, and the step indices read are
\* non-decreasing.
C13_BoundedCorrection ==
    /\ [](/\ \A k \in 1..(Len(forcedAt) - 1) :
                forcedAt[k + 1] - forcedAt[k] >= StallLimit
          /\ \A a, b \in 1..Len(observed) :
                (a < b /\ observed[a] # NoIndex /\ observed[b] # NoIndex)
                    => observed[a] <= observed[b])
    /\ [][Len(forcedAt') > Len(forcedAt) =>
            \A j \in DOMAIN step_status :
                step_status'[j] # step_status[j] => j = observed'[polls']]_vars

\* C14 as stated: the loop is left early only when max_failures chapters
\* in a row have failed.
C14_ConsecutiveFailures ==
    LET secs == SelectSeq(current_content.parts, IsSection)
    IN (pc = "summary" /\ broke) =>
         /\ Len(secs) >= max_failures
         /\ \A k \in (Len(secs) - max_failures + 1)..Len(secs) :
                secs[k].k = "fallback"

\* C14 amended: the counter counts every failed chapter of the run,
\* consecutive or not; the loop is left early exactly when the number of
\* chapters stored with the fallback text reaches max_failures.
C14_CumulativeFailures ==
    LET fb == {k \in 1..Len(current_content.parts) :
                  current_content.parts[k].k = "fallback"}
    IN /\ pc \in {"chapGen", "chapCheck", "vizGen", "chapNext", "summary"}
            => failures = Cardinality(fb)
       /\ pc = "summary" => (broke <=> failures >= max_failures)
       /\ pc \in {"chapGen", "vizGen", "chapNext"} => failures < max_failures

\* C14 witness: the loop was left after failures that a generated chapter
\* separates.
C14_SeparatedFailures ==
    /\ pc = "summary" /\ broke
    /\ \E a, b, c \in 1..Len(current_content.parts) :
         /\ a < b /\ b < c
         /\ current_content.parts[a].k = "fallback"
         /\ current_content.parts[b].k = "gen"
         /\ current_content.parts[c].k = "fallback"

\* C15 as stated: max_failures is the number of chapters halved and
\* rounded up.
C15_ThresholdCeil ==
    pc \notin {"titles", "initSnap", "structure", "chapInit"} =>
        (2 * max_failures >= chapters /\ 2 * max_failures < chapters + 2)

\* C15 amended: max_failures is the number of chapters halved and rounded
\* down (2 for 5 chapters, 3 for 6 chapters).
C15_ThresholdFloor ==
    pc \notin {"titles", "initSnap", "structure", "chapInit"} =>
        /\ 2 * max_failures <= chapters /\ chapters < 2 * max_failures + 2
        /\ chapters = 5 => max_failures = 2
        /\ chapters = 6 => max_failures = 3

\* C15 witness: five chapters with threshold 2.
C15_FiveChapters == pc = "chapNext" /\ chapters = 5 /\ max_failures = 2

\* C16 as stated: when the attempts of a chapter are exhausted its retry
\* counter equals max_retries.
C16_CounterIsMaxRetries ==
    (/\ pc = "chapGen"
     /\ Falsy(chapter_content)
     /\ ~RetryAgain(retry_count, chapter_content))
        => retry_count = max_retries

\* C16 amended: when the attempts of a chapter are exhausted its retry
\* counter equals max_retries + 1, one for every rejected attempt.
C16_CounterIsAttempts ==
    (/\ pc = "chapGen"
     /\ Falsy(chapter_content)
     /\ ~RetryAgain(retry_count, chapter_content))
        => (retry_count = max_retries + 1 /\ calls = retry_count)

\* C16 witness: a chapter whose retry loop has ended without a text.
C16_LoopEndedEmpty ==
    /\ pc = "chapGen"
    /\ lastGen.nil
    /\ retry_count = max_retries + 1

\* C17: when the first two attempts of a chapter are rejected and the third
\* is accepted, the retry counter is 2 and the section stored for the
\* chapter holds the text of the third attempt.
C17_ThirdAttemptStored ==
    /\ []((pc = "chapGen" /\ calls = 3 /\ ~Falsy(chapter_content))
            => (retry_count = 2 /\ chapter_content = lastGen))
    /\ [][(/\ pc = "chapGen" /\ pc' = "chapCheck"
           /\ calls = 3 /\ ~Falsy(chapter_content))
          => (/\ chapter_content' = lastGen
              /\ current_content'.parts =
                     Append(current_content.parts, Part("gen", i))
              /\ current_content'.len =
                     Sat(current_content.len + SectionHeadLen + NameLen
                           + lastGen.len))]_vars

\* C17 witness: the third attempt of a chapter has been accepted after two
\* rejected ones.
C17_StoredAfterTwoFailures ==
    /\ pc = "chapGen"
    /\ calls = 3 /\ retry_count = 2
    /\ chapter_content = lastGen /\ lastGen.len >= MinChapterLen

\* C18 as stated: a result is accepted only if it is not None and longer
\* than 50 characters; every other result is rejected and retried.
C18_AcceptedAboveMinimum ==
    (pc = "chapGen" /\ calls > 0) =>
        (~Falsy(chapter_content)
            <=> (~lastGen.nil /\ lastGen.len > MinChapterLen))

\* C18 amended: a result is accepted exactly if it is not None and at
\* least 50 characters long; every shorter result is rejected and retried.
C18_AcceptedFromMinimum ==
    (pc = "chapGen" /\ calls > 0) =>
        /\ ~Falsy(chapter_content)
               <=> (~lastGen.nil /\ lastGen.len >= MinChapterLen)
        /\ ~Falsy(chapter_content) => chapter_content = lastGen
        /\ Falsy(chapter_content) => retry_count = calls

\* C18 witness: a result of exactly 50 characters has been accepted.
C18_FiftyAccepted ==
    /\ pc = "chapGen" /\ calls > 0
    /\ ~chapter_content.nil /\ chapter_content.len = MinChapterLen

C21_FailedAfterLostSnapshot ==
    (pc = "done" /\ lost) => (marker = "error" /\ outFile.st = "whole")

\* C23: a second call of generate_script on the same workflow begins with
\* empty accumulated content and an empty list of code blocks, as a call
\* on a fresh workflow does.
C23_SecondRunStartsFresh ==
    (pc = "again" /\ ioFaults = 0) =>
        (current_content = Empty /\ manim_code_blocks = 0)

\* C24: generate_script never leaves with an exception, and the script it
\* returns is a non-empty text.
C24_AlwaysReturnsArtifact ==
    /\ pc # "raised"
    /\ pc = "done" => final_output.len > 0

\* The stage of the controller at a position of generate_script.  A call
\* left by an exception has ended as a failed run.
StageAt(p) ==
    CASE p = "setup" -> "Planning"
      [] p \in {"titles", "initSnap"} -> "GeneratingTitles"
      [] p = "structure" -> "GeneratingStructure"
      [] p \in {"chapInit", "chapNext", "chapGen", "chapCheck", "vizGen",
                "summary"} -> "GeneratingSections"
      [] p \in {"assemble", "mark", "markCheck", "markOpen", "markPut"}
             -> "Finalizing"
      [] p = "done" -> "Done"
      [] OTHER -> "Failed"
StageOrder ==
    <<"Planning", "GeneratingTitles", "GeneratingStructure",
      "GeneratingSections", "Finalizing">>
StageRank(st) == CHOOSE n \in 1..Len(StageOrder) : StageOrder[n] = st

\* C26: every step of the controller stays in its stage or enters the
\* next one of Planning, GeneratingTitles, GeneratingStructure,
\* GeneratingSections, Finalizing; Done and Failed are entered only from
\* GeneratingSections or Finalizing and are never left.
C26_StagesInOrder ==
    [][LET a == StageAt(pc)
           b == StageAt(pc')
       IN /\ a \in {"Done", "Failed"} => b = a
          /\ (b \in {"Done", "Failed"} /\ b # a)
                => a \in {"GeneratingSections", "Finalizing"}
          /\ (a \notin {"Done", "Failed"} /\ b \notin {"Done", "Failed"})
                => StageRank(b) \in {StageRank(a), StageRank(a) + 1}]_vars

\* C30: a run cancelled in the chapter loop has completed the step that
\* was in flight and written its snapshot, and has ended as failed with
\* the marker "error".
C30_CancelFinalizesFailed ==
    (pc = "cancelled" /\ i > 0 /\ ioFaults = 0) =>
        /\ marker = "error"
        /\ outFile.st = "whole"
        /\ outFile.body \in {current_content, UpdateArg(current_content)}

\* C22: a text stored for an article index is kept unchanged by every
\* later call of act, also by a call for the same step with another
\* result, and no index is ever removed.
C22_FirstSectionKept ==
    [][\A k \in DOMAIN section_text :
          /\ k \in DOMAIN section_text'
          /\ section_text'[k] = section_text[k]]_vars

\* C22 witness: act has run for a step whose article was stored before
\* with another text, and the stored text is not the new result.
C22_StoredAgain ==
    /\ apc \in {"think", "finished"}
    /\ result # NoResult
    /\ current_step_index # NoIndex
    /\ (current_step_index - 2) \in DOMAIN section_text
    /\ section_text[current_step_index - 2] # result

\* C25: planning never ends the run: past the planning step the plan has
\* at least one section, the default plan when the request failed or gave
\* no list or an empty list, and the run has not been ended for want of a
\* plan.
C25_PlanningNeverAborts ==
    gpc \notin {"start", "plan"} =>
        (returned = "error: no keywords"
            \/ (~PlanMissing(plan) /\ returned # "error: plan"))

\* C27: a code reference is inserted immediately after the first
\* occurrence of its anchor text within the text of its own chapter, so
\* that the title and the text of every other chapter stay as they were.
C27_InsertedInOwnSection ==
    [][(todo # <<>> /\ done' # done
            /\ Head(todo).content # <<>>
            /\ Find(SecOf(doc), Head(todo).content) >= 0)
        => (/\ doc' = InsertAt(doc,
                          secStart + InsertionPoint(SecOf(doc), Head(todo).content),
                          Head(todo).ref)
            /\ SubSeq(doc', 1, secStart) = SubSeq(doc0, 1, secStart))]_vars

\* C28: a code reference whose anchor text is not found is appended at
\* the end of its chapter: it is not dropped and not put anywhere else.
C28_NotFoundAppended ==
    [][(todo # <<>> /\ done' # done /\ Find(doc, Head(todo).content) = -1)
        => doc' = Append(doc, Head(todo).ref)]_vars

\* C29: when the sections of one chapter have all been given code, the
\* insertions were made in descending order of the anchors' offsets, and
\* each anchor text is immediately followed by its own code reference,
\* also when the anchors overlap.
C29_EachAnchorFollowedByOwnBody ==
    (/\ todo = <<>>
     /\ Len(done) = MaxAnchors
     /\ \A n \in 1..Len(done) : done[n].content # <<>>
     /\ \A m, n \in 1..Len(done) :
          m # n => done[m].content # done[n].content)
    => /\ \A m, n \in 1..Len(done) :
            m < n => Find(SecOf(doc0), done[m].content)
                        >= Find(SecOf(doc0), done[n].content)
       /\ \A n \in 1..Len(done) :
            Find(doc, Append(done[n].content, done[n].ref)) >= 0

\* C31: the failure counter goes up by exactly one when a chapter is stored
\* whose three attempts were all rejected, stays as it is when a chapter is
\* stored whose last attempt was accepted, and is changed by no other step
\* of the loop.
C31_FailureCountedOnce ==
    [][IF pc = "chapGen" /\ pc' = "chapCheck"
       THEN IF Accepted(lastGen)
            THEN failures' = failures
            ELSE calls = max_retries + 1 /\ failures' = failures + 1
       ELSE pc # "chapInit" => failures' = failures]_vars

\* C31 witness: the second of two chapters has been stored with generated
\* text after the first one had exhausted its attempts; the counter is 1.
C31_FailureThenSuccess ==
    /\ pc = "chapCheck"
    /\ i = 2
    /\ produced = {2}
    /\ failures = 1

\* C32: a call of _write_chapter, accepted or rejected, leaves the chapter
\* list, the script text, the list of code blocks and the failure counter
\* as they were; its result is applied by the loop when the chapter is
\* stored.
C32_AttemptChangesNothing ==
    [][calls' = calls + 1
        => UNCHANGED <<chapters, current_content, manim_code_blocks,
                       failures>>]_vars

\* C32 witness: in the second chapter a rejected attempt was followed by an
\* accepted one, after the first chapter had failed; the chapter is not
\* stored yet.
C32_AcceptedAfterRejected ==
    /\ pc = "chapGen"
    /\ i = 2
    /\ calls = 2
    /\ Accepted(lastGen)
    /\ failures = 1
    /\ \A k \in 1..Len(current_content.parts) : current_content.parts[k].i # 2

\* The places of the summary section in a content.
SummaryAt(cnt) == {k \in 1..Len(cnt.parts) : cnt.parts[k].k = "summary"}

\* C33: while the chapter loop runs the script has no summary section; once
\* the loop has been left, by its end or by the stop at the failure
\* threshold, the script has exactly one summary section, and it stands
\* behind every chapter section, also when the summary generator gave no
\* text.
C33_SummaryOnceAtEnd ==
    /\ pc \in {"chapNext", "chapGen", "chapCheck", "vizGen", "summary"}
         => SummaryAt(current_content) = {}
    /\ pc \in {"assemble", "mark", "markCheck", "markOpen", "markPut", "done"}
         => /\ Cardinality(SummaryAt(current_content)) = 1
            /\ \A s \in SummaryAt(current_content) :
                 \A k \in 1..Len(current_content.parts) :
                    IsSection(current_content.parts[k]) => k < s
            /\ pc # "assemble" =>
                 /\ Cardinality(SummaryAt(final_output)) = 1
                 /\ \A s \in SummaryAt(final_output) :
                      s = Len(final_output.parts)

\* C33 witness: the loop was left at the failure threshold before the last
\* chapter, and the summary section is the last part of the script.
C33_SummaryAfterEarlyStop ==
    /\ pc = "assemble"
    /\ broke
    /\ i < chapters
    /\ SummaryAt(current_content) = {Len(current_content.parts)}
    /\ current_content.parts[Len(current_content.parts) - 1] = Part("fallback", i)

\* A call of think has given the plan up: it forced the plan forward and
\* the step index was the same afterwards, or mark_step raised.
EverAbandoned ==
    \E n \in 1..Len(forcedAt) :
        LET p == forcedAt[n]
        IN  IF p < Len(observed)
            THEN observed[p + 1] = observed[p]
            ELSE current_step_index = observed[p]

\* C34: when a forced advance has left the step index unchanged, or the
\* marking of the stuck step has raised, the remaining steps are given up:
\* the run ends in the writing stage review, in which it returns the
\* article assembled from the sections stored so far.
C34_StuckPlanReturnsArticle ==
    (apc = "finished" /\ EverAbandoned) => writing_stage = "review"

\* C35: when generate_script has returned on its normal path and no file
\* operation failed, the script it returned is the content the output file
\* holds, as written by the last snapshot or by the replacement of
\* placeholder text.
C35_ReturnedScriptIsFileContent ==
    (pc = "done" /\ ioFaults = 0)
        => /\ outFile.st = "whole"
           /\ outFile.body \in {final_output, UpdateArg(final_output)}

\* C36: when every external call returns or raises, generate_script reaches
\* its return statement.
C36_ReachesReturn == <>(pc = "done")

\* C37: a chapter list that has reached the chapter loop has at least 3
\* chapters and a failure threshold of at least 1; while no chapter has
\* failed the loop is not left early, and when it ends without a failure
\* every chapter of the list has been stored with generated text.
C37_AllGeneratedWithoutFailure ==
    pc \in {"chapNext", "chapGen", "chapCheck", "vizGen", "summary",
            "assemble", "mark", "markCheck", "markOpen", "markPut", "done"}
    => /\ chapters >= MinChapters
       /\ max_failures >= 1
       /\ failures = 0 => ~broke
       /\ (failures = 0 /\ pc \notin {"chapNext", "chapGen", "chapCheck", "vizGen"})
            => produced = 1..chapters

\* C37 witness: a run over a parsed list of exactly 3 chapters has returned
\* without a failed chapter.
C37_ThreeChaptersGenerated ==
    /\ pc = "done"
    /\ chapters = MinChapters
    /\ failures = 0
    /\ produced = 1..MinChapters

\* The positions of the document's chunks are 0..n-1 without duplicates.
Contiguous(st) ==
    /\ \A c, d \in DOMAIN st : c # d => st[c] # st[d]
    /\ {st[c] : c \in DOMAIN st} = 0..(Cardinality(DOMAIN st) - 1)

\* C38: when no operation is in flight and the operation that returned last
\* was an add, delete, merge, split or reorder that succeeded, the
\* positions of the document's chunks are exactly 0..n-1.
C38_PositionsContiguous ==
    (lastDone = "ok" /\ \A p \in Procs : opc[p] = "idle") => Contiguous(store)

\* The places of the complete events among the events of the stream.
CompleteAt(ev) == {k \in 1..Len(ev) : ev[k] = "complete"}

\* C39: a document stream that has ended has emitted the complete event
\* exactly once, and as its last event.
C39_CompleteOnceAndLast ==
    (spc = "done" /\ skind = "document")
        => CompleteAt(events) = {Len(events)}

====
